---- MODULE Spec2Model ----
(***************************************************************************)
(* Session / profile consistency of the AuthProvider component.           *)
(*                                                                         *)
(* The repository holds two variants of the provider: the "gated" one     *)
(* (initializeAuth + a handler that skips INITIAL_SESSION) and the         *)
(* "single" one (every notification goes through handleAuthChange, with a *)
(* fallback timer).  The variable `variant` selects which one runs.       *)
(***************************************************************************)
EXTENDS Naturals, FiniteSets, Sequences, TLC

\* ---------------------------------------------------------------- bounds
\* Loads and updates started in one run, taken together.
MaxCalls == 2

\* ------------------------------------------------------ program constants
Retries == 2

Users == {"u1", "u2"}
Names == {"Edited"}
Tokens == {"t0", "t1"}

NoSession == [uid |-> "none", tok |-> "none"]
NoProfile == [id |-> "none", user_id |-> "none", role |-> "none", full_name |-> "none",
              phone |-> "none"]
NoRow == [role |-> "none", full_name |-> "none", phone |-> "none"]

VARIABLES
  variant,        \* "gated" | "single": which provider variant is mounted
  provSession,    \* the identity provider's own current session
  store,          \* profiles table: user id -> row (or NoRow)
  user,           \* React state `user` (its id, or "none")
  session,        \* React state `session`
  profile,        \* React state `profile`
  loading,        \* React state `loading`
  initPc,         \* "snapshot" while getSession() is outstanding, then "done"
  initialEvent,   \* TRUE while the subscription's INITIAL_SESSION is undelivered
  fallbackPending,\* TRUE while the single variant's 15 s timer is armed
  loads,          \* loadProfile calls in flight
  nextGen,        \* sequence number given to the next loadProfile call
  updates,        \* updateProfile calls in flight
  nextUpd,        \* sequence number given to the next updateProfile call
  meter,          \* per metered load: what its attempts did and how long they took
  mounted,        \* FALSE once the provider's effect cleanup has run
  calls,          \* signIn / signOut calls of the consumers: where each stands
  now             \* time since the provider was mounted, where it is measured

vars == <<variant, provSession, store, user, session, profile, loading, initPc,
          initialEvent, fallbackPending, loads, nextGen, updates, nextUpd, meter,
          mounted, calls, now>>

\* No signIn or signOut call has been made.
NoCalls == [signIn |-> "idle", signInSent |-> 0, signOut |-> "idle"]

\* ------------------------------------------------------------- helpers

\* The row of the profiles table as the client receives it.
RowProfile(uid, row) ==
  [id |-> "row", user_id |-> uid, role |-> row.role, full_name |-> row.full_name,
   phone |-> row.phone]

\* The row of the administrator the installation starts with.
AdminRow == [role |-> "admin", full_name |-> "User", phone |-> "0811"]

\* The row createProfile inserts.
DefaultRow == [role |-> "staff", full_name |-> "User", phone |-> ""]

\* The handler registered by useEffect(..., []) is the first render's closure:
\* the `loading` it reads is the initial useState(true) value.
HandlerSeesLoading == TRUE

\* Whether the code awaiting this load sets loading to false afterwards.
SetsLoadingOnDone(l) ==
  \/ variant = "gated" /\ l.owner = "init"
  \/ variant = "single" /\ l.owner \in {"init", "event"}

\* loadProfile and updateProfile calls made so far.
CallsStarted == (nextGen - 1) + (nextUpd - 1)

NewLoad(uid, owner) ==
  [gen |-> nextGen, uid |-> uid, owner |-> owner, pc |-> "fetch", attempt |-> 0]

\* loadProfile(userId) is called: its first fetch attempt is sent.
StartLoad(uid, owner) ==
  /\ CallsStarted < MaxCalls
  /\ loads' = loads \cup {NewLoad(uid, owner)}
  /\ nextGen' = nextGen + 1

\* loadProfile ends: setProfile(result), then the awaiting code continues.
CompleteLoad(l, result) ==
  /\ profile' = result
  /\ loading' = IF SetsLoadingOnDone(l) THEN FALSE ELSE loading
  /\ loads' = loads \ {l}

\* ------------------------------------------------------------- Init
Init ==
  /\ variant \in {"gated", "single"}
  /\ provSession \in {NoSession, [uid |-> "u1", tok |-> "t0"]}
  /\ store = [u \in Users |-> IF u = "u1" THEN AdminRow ELSE NoRow]
  /\ user = "none"
  /\ session = NoSession
  /\ profile = NoProfile
  /\ loading = TRUE
  /\ initPc = "snapshot"
  /\ initialEvent = TRUE
  /\ fallbackPending = (variant = "single")
  /\ loads = {}
  /\ nextGen = 1
  /\ updates = {}
  /\ nextUpd = 1
  /\ meter = <<>>
  /\ mounted = TRUE
  /\ calls = NoCalls
  /\ now = 0

\* ------------------------------------------------- session state machine

\* handleAuthChange without the test that skips INITIAL_SESSION.
HandleAuthChangeNoSkip(event, sess, owner) ==
  /\ session' = sess
  /\ user' = sess.uid
  /\ IF sess # NoSession
     THEN /\ StartLoad(sess.uid, owner)
          /\ UNCHANGED <<profile, loading>>
     ELSE /\ profile' = NoProfile
          /\ loading' = IF variant = "single" THEN FALSE ELSE loading
          /\ UNCHANGED <<loads, nextGen>>

\* handleAuthChange(event, sess), up to its first await.
HandleAuthChange(event, sess, owner) ==
  IF variant = "gated" /\ HandlerSeesLoading /\ event = "INITIAL_SESSION"
  THEN UNCHANGED <<user, session, profile, loading, loads, nextGen>>
  ELSE /\ session' = sess
       /\ user' = sess.uid
       /\ IF sess # NoSession
          THEN /\ StartLoad(sess.uid, owner)
               /\ UNCHANGED <<profile, loading>>
          ELSE /\ profile' = NoProfile
               /\ loading' = IF variant = "single" THEN FALSE ELSE loading
               /\ UNCHANGED <<loads, nextGen>>

\* initializeAuth() after getSession() answered (gated variant).
InitializeAuth(ok) ==
  IF ok /\ provSession # NoSession
  THEN /\ session' = provSession
       /\ user' = provSession.uid
       /\ StartLoad(provSession.uid, "init")
       /\ UNCHANGED <<profile, loading>>
  ELSE /\ session' = NoSession
       /\ user' = "none"
       /\ profile' = NoProfile
       /\ loading' = FALSE
       /\ UNCHANGED <<loads, nextGen>>

\* init() after getSession() answered (single variant).
InitSingle(ok) ==
  IF ok
  THEN IF mounted
       THEN HandleAuthChange("INITIAL_SESSION", provSession, "init")
       ELSE UNCHANGED <<user, session, profile, loading, loads, nextGen>>
  ELSE /\ loading' = FALSE
       /\ UNCHANGED <<user, session, profile, loads, nextGen>>

\* The one-shot getSession() answers (ok) or throws (~ok).
SnapshotResolves ==
  /\ initPc = "snapshot"
  /\ initPc' = "done"
  /\ \E ok \in BOOLEAN :
       IF variant = "gated" THEN InitializeAuth(ok) ELSE InitSingle(ok)
  /\ UNCHANGED <<now, meter, mounted, calls, variant, provSession, store, initialEvent, fallbackPending,
                 updates, nextUpd>>

\* The subscription delivers its INITIAL_SESSION notification.
InitialSessionEvent ==
  /\ mounted
  /\ initialEvent
  /\ initialEvent' = FALSE
  /\ HandleAuthChange("INITIAL_SESSION", provSession, "event")
  /\ UNCHANGED <<now, meter, mounted, calls, variant, provSession, store, initPc, fallbackPending,
                 updates, nextUpd>>

\* signIn(email, password): the provider refuses (AuthError) or signs u in and
\* notifies SIGNED_IN.
SignIn ==
  /\ mounted
  /\ ~initialEvent
  /\ \E u \in Users, ok \in BOOLEAN :
       IF ok
       THEN /\ provSession' = [uid |-> u, tok |-> "t0"]
            /\ HandleAuthChange("SIGNED_IN", provSession', "event")
       ELSE UNCHANGED <<provSession, user, session, profile, loading, loads, nextGen>>
  /\ UNCHANGED <<now, meter, mounted, calls, variant, store, initPc, initialEvent, fallbackPending,
                 updates, nextUpd>>

\* The provider renews the token of its session and notifies TOKEN_REFRESHED.
TokenRefreshed ==
  /\ mounted
  /\ ~initialEvent
  /\ provSession # NoSession
  /\ \E t \in Tokens \ {provSession.tok} :
       provSession' = [provSession EXCEPT !.tok = t]
  /\ HandleAuthChange("TOKEN_REFRESHED", provSession', "event")
  /\ UNCHANGED <<now, meter, mounted, calls, variant, store, initPc, initialEvent, fallbackPending,
                 updates, nextUpd>>

\* The provider notifies USER_UPDATED with its unchanged session.
UserUpdated ==
  /\ mounted
  /\ ~initialEvent
  /\ provSession # NoSession
  /\ HandleAuthChange("USER_UPDATED", provSession, "event")
  /\ UNCHANGED <<now, meter, mounted, calls, variant, provSession, store, initPc, initialEvent,
                 fallbackPending, updates, nextUpd>>

\* The provider's session ends (remote sign-out, expiry): SIGNED_OUT.
SignedOutEvent ==
  /\ mounted
  /\ ~initialEvent
  /\ provSession # NoSession
  /\ provSession' = NoSession
  /\ HandleAuthChange("SIGNED_OUT", NoSession, "event")
  /\ UNCHANGED <<now, meter, mounted, calls, variant, store, initPc, initialEvent, fallbackPending,
                 updates, nextUpd>>

\* setUser(null); setSession(null); setProfile(null).
ClearLocal ==
  /\ user' = "none"
  /\ session' = NoSession
  /\ profile' = NoProfile

\* signOut(): the local state is cleared; the remote call is SignedOutEvent.
SignOut ==
  /\ mounted
  /\ ClearLocal
  /\ UNCHANGED <<now, meter, mounted, calls, variant, provSession, store, loading, initPc, initialEvent,
                 fallbackPending, loads, nextGen, updates, nextUpd>>

\* refreshProfile() without the `if (user)` test, loading the session's user.
RefreshProfileOfSession ==
  /\ mounted
  /\ provSession # NoSession
  /\ StartLoad(provSession.uid, "refresh")
  /\ UNCHANGED <<now, meter, mounted, calls, variant, provSession, store, user, session, profile, loading,
                 initPc, initialEvent, fallbackPending, updates, nextUpd>>

\* refreshProfile().
RefreshProfile ==
  /\ mounted
  /\ user # "none"
  /\ StartLoad(user, "refresh")
  /\ UNCHANGED <<now, meter, mounted, calls, variant, provSession, store, user, session, profile, loading,
                 initPc, initialEvent, fallbackPending, updates, nextUpd>>

\* The fallback timer firing without its setLoading(false).
FallbackTimeoutKeepsLoading ==
  /\ fallbackPending
  /\ fallbackPending' = FALSE
  /\ UNCHANGED <<now, meter, mounted, calls, variant, provSession, store, user, session, profile, initPc,
                 initialEvent, loads, nextGen, updates, nextUpd, loading>>

\* The single variant's fallback timer fires.
FallbackTimeout ==
  /\ fallbackPending
  /\ fallbackPending' = FALSE
  /\ loading' = FALSE
  /\ UNCHANGED <<now, meter, mounted, calls, variant, provSession, store, user, session, profile, initPc,
                 initialEvent, loads, nextGen, updates, nextUpd>>

\* ------------------------------------------------------- profile loader

\* FetchStep rethrowing the exception of the last attempt: it leaves
\* fetchProfile and reaches the caller of the load.
FetchStepRethrows(l, outcome) ==
    /\ l.pc = "fetch"
    /\ outcome = "data" => store[l.uid] # NoRow
    /\ IF outcome = "data"
       THEN CompleteLoad(l, RowProfile(l.uid, store[l.uid]))
       ELSE /\ loads' = (loads \ {l}) \cup
                 {IF l.attempt = Retries
                  THEN [l EXCEPT !.pc = IF outcome = "timeout" THEN "raised" ELSE "create"]
                  ELSE IF outcome = "error" /\ variant = "gated"
                       THEN [l EXCEPT !.attempt = @ + 1]
                       ELSE [l EXCEPT !.pc = "backoff"]}
            /\ UNCHANGED <<profile, loading>>
    /\ UNCHANGED <<variant, provSession, store, user, session, initPc,
                   initialEvent, fallbackPending, nextGen, updates, nextUpd>>

\* One attempt of fetchProfile ends: with the row, with an error result, or
\* with an exception (the 15 s timeout among them).
FetchStep(l, outcome) ==
    /\ l.pc = "fetch"
    /\ outcome = "data" => store[l.uid] # NoRow
    /\ IF outcome = "data"
       THEN CompleteLoad(l, RowProfile(l.uid, store[l.uid]))
       ELSE /\ loads' = (loads \ {l}) \cup
                 {IF l.attempt = Retries
                  THEN [l EXCEPT !.pc = "create"]
                  ELSE IF outcome = "error" /\ variant = "gated"
                       THEN [l EXCEPT !.attempt = @ + 1]
                       ELSE [l EXCEPT !.pc = "backoff"]}
            /\ UNCHANGED <<profile, loading>>
    /\ UNCHANGED <<variant, provSession, store, user, session, initPc,
                   initialEvent, fallbackPending, nextGen, updates, nextUpd>>

FetchResolves ==
  \E l \in loads, outcome \in {"data", "error", "timeout"} :
    FetchStep(l, outcome) /\ UNCHANGED <<now, meter, mounted, calls>>

\* The backoff timer of a failed attempt elapses; the next attempt is sent.
BackoffStep(l) ==
    /\ l.pc = "backoff"
    /\ loads' = (loads \ {l}) \cup {[l EXCEPT !.pc = "fetch", !.attempt = @ + 1]}
    /\ UNCHANGED <<variant, provSession, store, user, session, profile, loading,
                   initPc, initialEvent, fallbackPending, nextGen, updates, nextUpd>>

BackoffElapses ==
  \E l \in loads : BackoffStep(l) /\ UNCHANGED <<now, meter, mounted, calls>>

\* CreateStep without the .select() of the inserted row: no data comes back.
CreateStepDropsData(l, ok) ==
    /\ l.pc = "create"
    /\ ok => store[l.uid] = NoRow
    /\ store' = IF ok THEN [store EXCEPT ![l.uid] = DefaultRow] ELSE store
    /\ CompleteLoad(l, NoProfile)
    /\ UNCHANGED <<variant, provSession, user, session, initPc, initialEvent,
                   fallbackPending, nextGen, updates, nextUpd>>

\* CreateStep inserting the role of the administrator's row.
CreateStepInsertsAdmin(l, ok) ==
    /\ l.pc = "create"
    /\ ok => store[l.uid] = NoRow
    /\ IF ok
       THEN /\ store' = [store EXCEPT ![l.uid] = AdminRow]
            /\ CompleteLoad(l, RowProfile(l.uid, AdminRow))
       ELSE /\ CompleteLoad(l, NoProfile)
            /\ UNCHANGED store
    /\ UNCHANGED <<variant, provSession, user, session, initPc, initialEvent,
                   fallbackPending, nextGen, updates, nextUpd>>

\* createProfile ends: the row was inserted, or the insert failed (null).
CreateStep(l, ok) ==
    /\ l.pc = "create"
    /\ ok => store[l.uid] = NoRow
    /\ IF ok
       THEN /\ store' = [store EXCEPT ![l.uid] = DefaultRow]
            /\ CompleteLoad(l, RowProfile(l.uid, DefaultRow))
       ELSE /\ CompleteLoad(l, NoProfile)
            /\ UNCHANGED store
    /\ UNCHANGED <<variant, provSession, user, session, initPc, initialEvent,
                   fallbackPending, nextGen, updates, nextUpd>>

CreateResolves ==
  \E l \in loads, ok \in BOOLEAN : CreateStep(l, ok) /\ UNCHANGED <<now, meter, mounted, calls>>

\* -------------------------------------------------------- updateProfile

\* updateProfile(updates) with a signed-in user: the store request is sent.
UpdateProfileCall ==
  /\ mounted
  /\ user # "none"
  /\ CallsStarted < MaxCalls
  /\ \E n \in Names :
       updates' = updates \cup {[id |-> nextUpd, uid |-> user, full_name |-> n, pc |-> "sent"]}
  /\ nextUpd' = nextUpd + 1
  /\ UNCHANGED <<now, meter, mounted, calls, variant, provSession, store, user, session, profile, loading,
                 initPc, initialEvent, fallbackPending, loads, nextGen>>

\* The store processes the update: applies it, or fails.
UpdateStoreAnswers ==
  \E r \in updates, ok \in BOOLEAN :
    /\ r.pc = "sent"
    /\ updates' = (updates \ {r}) \cup {[r EXCEPT !.pc = IF ok THEN "ok" ELSE "error"]}
    /\ store' = IF ok /\ store[r.uid] # NoRow
                THEN [store EXCEPT ![r.uid].full_name = r.full_name]
                ELSE store
    /\ UNCHANGED <<now, meter, mounted, calls, variant, provSession, user, session, profile, loading, initPc,
                   initialEvent, fallbackPending, loads, nextGen, nextUpd>>

\* updateProfile(updates) with no signed-in user: the call ends with an Error
\* of its own; no request is sent.
UpdateProfileNoUser ==
  /\ mounted
  /\ user = "none"
  /\ CallsStarted < MaxCalls
  /\ \E n \in Names :
       updates' = updates \cup {[id |-> nextUpd, uid |-> "none", full_name |-> n,
                                 pc |-> "rejected"]}
  /\ nextUpd' = nextUpd + 1
  /\ UNCHANGED <<now, meter, mounted, calls, variant, provSession, store, user, session, profile, loading,
                 initPc, initialEvent, fallbackPending, loads, nextGen>>

\* UpdateProfileReturns without the `if (!error)` test: the fields are merged
\* whatever the store answered.
UpdateProfileReturnsIgnoresError ==
  \E r \in updates :
    /\ r.pc # "sent"
    /\ updates' = updates \ {r}
    /\ profile' = IF profile # NoProfile
                  THEN [profile EXCEPT !.full_name = r.full_name]
                  ELSE profile
    /\ UNCHANGED <<now, meter, mounted, calls, variant, provSession, store, user, session, loading, initPc,
                   initialEvent, fallbackPending, loads, nextGen, nextUpd>>

\* The awaited update answers: on success the fields are merged into the
\* cached profile, if there is one.
UpdateProfileReturns ==
  \E r \in updates :
    /\ r.pc # "sent"
    /\ updates' = updates \ {r}
    /\ profile' = IF r.pc = "ok" /\ profile # NoProfile
                  THEN [profile EXCEPT !.full_name = r.full_name]
                  ELSE profile
    /\ UNCHANGED <<now, meter, mounted, calls, variant, provSession, store, user, session, loading, initPc,
                   initialEvent, fallbackPending, loads, nextGen, nextUpd>>

\* ------------------------------------------------------- specification
Next ==
  \/ SnapshotResolves
  \/ InitialSessionEvent
  \/ SignIn
  \/ TokenRefreshed
  \/ UserUpdated
  \/ SignedOutEvent
  \/ SignOut
  \/ RefreshProfile
  \/ FallbackTimeout
  \/ FetchResolves
  \/ BackoffElapses
  \/ CreateResolves
  \/ UpdateProfileCall
  \/ UpdateStoreAnswers
  \/ UpdateProfileReturns

Spec == Init /\ [][Next]_vars

\* ------------------------------------------- signIn and signOut, by step
\* The two calls split at their await: the request to the identity provider
\* is sent, and later answered (or not).

\* signIn(email, password): signInWithPassword is requested.
SignInCall ==
  /\ mounted
  /\ calls.signIn # "sent"
  /\ calls' = [calls EXCEPT !.signIn = "sent", !.signInSent = 1]
  /\ UNCHANGED <<variant, provSession, store, user, session, profile, loading, initPc,
                 initialEvent, fallbackPending, loads, nextGen, updates, nextUpd,
                 meter, mounted, now>>

\* SignInAnswers clearing the local state when the provider refuses.
SignInAnswersClears ==
  /\ calls.signIn = "sent"
  /\ \E u \in Users, ok \in BOOLEAN :
       IF ok
       THEN /\ provSession' = [uid |-> u, tok |-> "t0"]
            /\ HandleAuthChange("SIGNED_IN", provSession', "event")
            /\ calls' = [calls EXCEPT !.signIn = "ok"]
       ELSE /\ calls' = [calls EXCEPT !.signIn = "error"]
            /\ ClearLocal
            /\ UNCHANGED <<provSession, loading, loads, nextGen>>
  /\ UNCHANGED <<variant, store, initPc, initialEvent, fallbackPending, updates,
                 nextUpd, meter, mounted, now>>

\* The provider answers signInWithPassword: it signs u in and notifies
\* SIGNED_IN before signIn returns { error: null }, or it refuses and signIn
\* returns { error }.
SignInAnswers ==
  /\ calls.signIn = "sent"
  /\ \E u \in Users, ok \in BOOLEAN :
       IF ok
       THEN /\ provSession' = [uid |-> u, tok |-> "t0"]
            /\ HandleAuthChange("SIGNED_IN", provSession', "event")
            /\ calls' = [calls EXCEPT !.signIn = "ok"]
       ELSE /\ calls' = [calls EXCEPT !.signIn = "error"]
            /\ UNCHANGED <<provSession, user, session, profile, loading, loads, nextGen>>
  /\ UNCHANGED <<variant, store, initPc, initialEvent, fallbackPending, updates,
                 nextUpd, meter, mounted, now>>

\* signOut(): the three setters, then supabase.auth.signOut() is requested.
SignOutCall ==
  /\ mounted
  /\ calls.signOut # "sent"
  /\ ClearLocal
  /\ calls' = [calls EXCEPT !.signOut = "sent"]
  /\ UNCHANGED <<variant, provSession, store, loading, initPc, initialEvent,
                 fallbackPending, loads, nextGen, updates, nextUpd, meter, mounted, now>>

\* The provider answers the sign-out request: it ends its session and
\* notifies SIGNED_OUT, or it fails and its session stays; signOut() discards
\* the answer and returns.
SignOutAnswers ==
  /\ calls.signOut = "sent"
  /\ calls' = [calls EXCEPT !.signOut = "ok"]
  /\ \E ok \in BOOLEAN :
       IF ok /\ provSession # NoSession
       THEN /\ provSession' = NoSession
            /\ HandleAuthChange("SIGNED_OUT", NoSession, "event")
       ELSE UNCHANGED <<provSession, user, session, profile, loading, loads, nextGen>>
  /\ UNCHANGED <<variant, store, initPc, initialEvent, fallbackPending, updates,
                 nextUpd, meter, mounted, now>>

\* The provider is initialized: nobody is signed in, or u1 is signed in with
\* the stored profile loaded.
ApiInit ==
  /\ variant \in {"gated", "single"}
  /\ store = [u \in Users |-> IF u = "u1" THEN AdminRow ELSE NoRow]
  /\ \/ /\ provSession = NoSession
        /\ user = "none"
        /\ profile = NoProfile
        /\ nextGen = 1
     \/ /\ provSession = [uid |-> "u1", tok |-> "t0"]
        /\ user = "u1"
        /\ profile = RowProfile("u1", AdminRow)
        /\ nextGen = 2
  /\ session = provSession
  /\ loading = FALSE
  /\ initPc = "done"
  /\ initialEvent = FALSE
  /\ fallbackPending = FALSE
  /\ loads = {}
  /\ updates = {}
  /\ nextUpd = 1
  /\ meter = <<>>
  /\ mounted = TRUE
  /\ calls = NoCalls
  /\ now = 0

ApiNext ==
  \/ SignInCall
  \/ SignInAnswers
  \/ SignOutCall
  \/ SignOutAnswers
  \/ FetchResolves
  \/ BackoffElapses
  \/ CreateResolves

ApiSpec == ApiInit /\ [][ApiNext]_vars

\* The timers of the loader elapse; the provider's answers carry no timer.
ApiFairSpec ==
  /\ ApiSpec
  /\ WF_vars(FetchResolves)
  /\ WF_vars(BackoffElapses)

\* ------------------------------------------------- updates and sessions
\* updateProfile against a session that changes under it.  The first user is
\* signed in and the profile is loaded; the calls counted are those made from
\* here on.
UpdateInit ==
  /\ variant \in {"gated", "single"}
  /\ provSession = [uid |-> "u1", tok |-> "t0"]
  /\ store = [u \in Users |-> IF u = "u1" THEN AdminRow ELSE NoRow]
  /\ user = "u1"
  /\ session = provSession
  /\ profile = RowProfile("u1", AdminRow)
  /\ loading = FALSE
  /\ initPc = "done"
  /\ initialEvent = FALSE
  /\ fallbackPending = FALSE
  /\ loads = {}
  /\ nextGen = 1
  /\ updates = {}
  /\ nextUpd = 1
  /\ meter = <<>>
  /\ mounted = TRUE
  /\ calls = NoCalls
  /\ now = 0

UpdateNext ==
  \/ UpdateProfileCall
  \/ UpdateProfileNoUser
  \/ UpdateStoreAnswers
  \/ UpdateProfileReturns
  \/ SignIn
  \/ SignOut
  \/ SignedOutEvent
  \/ FetchResolves
  \/ BackoffElapses
  \/ CreateResolves

UpdateSpec == UpdateInit /\ [][UpdateNext]_vars

\* ------------------------------------------- administrative deletion
\* UsersPage.handleDelete: an administrator deletes a row of the profiles
\* table.  Nothing of the session state of the deleted user is told.
AdminDeletesProfile ==
  /\ \E u \in Users :
       /\ store[u] # NoRow
       /\ store' = [store EXCEPT ![u] = NoRow]
  /\ UNCHANGED <<variant, provSession, user, session, profile, loading, initPc,
                 initialEvent, fallbackPending, loads, nextGen, updates, nextUpd,
                 meter, mounted, calls, now>>

DeletionNext ==
  \/ AdminDeletesProfile
  \/ RefreshProfile
  \/ UserUpdated
  \/ FetchResolves
  \/ BackoffElapses
  \/ CreateResolves

\* The first user is signed in with the profile loaded when rows get deleted.
DeletionSpec == UpdateInit /\ [][DeletionNext]_vars

\* ------------------------------------------------------------ teardown

\* The effect cleanup: unsubscribe; the single variant also clears isMounted
\* and the fallback timer.  Loads and updates in flight are not touched.
Unmount ==
  /\ mounted
  /\ mounted' = FALSE
  /\ fallbackPending' = FALSE
  /\ UNCHANGED <<variant, provSession, store, user, session, profile, loading, initPc,
                 initialEvent, loads, nextGen, updates, nextUpd, meter, calls, now>>

TeardownNext ==
  \/ Next
  \/ Unmount

TeardownSpec == Init /\ [][TeardownNext]_vars

\* ------------------------------------------------- the fallback timer
\* The initial phase against the clock.  The timer set for FallbackDelay when
\* the provider is mounted fires when that time has passed, unless the cleanup
\* cleared it; getSession(), the store calls and the insert take any time.
FallbackDelay == 15

\* How long the clock is followed.
MaxTime == 16

\* One unit of time passes; a pending timer does not let its deadline pass.
Tick ==
  /\ now < MaxTime
  /\ fallbackPending => now < FallbackDelay
  /\ now' = now + 1
  /\ UNCHANGED <<variant, provSession, store, user, session, profile, loading, initPc,
                 initialEvent, fallbackPending, loads, nextGen, updates, nextUpd,
                 meter, mounted, calls>>

\* setTimeout(..., 15000): the callback runs once the delay has passed.
FallbackFires ==
  /\ now >= FallbackDelay
  /\ FallbackTimeout

TimerNext ==
  \/ Tick
  \/ FallbackFires
  \/ SnapshotResolves
  \/ InitialSessionEvent
  \/ FetchResolves
  \/ BackoffElapses
  \/ CreateResolves
  \/ Unmount

TimerSpec == Init /\ [][TimerNext]_vars

\* Each fetch attempt is cut off by its 15 s timer, each backoff timer and the
\* fallback timer elapse; getSession() and the insert carry no timer.
FairSpec ==
  /\ Spec
  /\ WF_vars(FetchResolves)
  /\ WF_vars(BackoffElapses)
  /\ WF_vars(FallbackTimeout)

\* --------------------------------------------------- the loader, metered
\* loadProfile as a function of the store's answers: the same steps, with a
\* meter that records what each attempt did and how long it took (seconds).

FetchTimeout == 15
BackoffBase == 1

\* Math.pow(2, attempt) * 1000 ms.
BackoffDelay(attempt) == (2 ^ attempt) * BackoffBase

\* How long the store takes when it answers before the timeout.
AnswerTimes == {1}

\* What one fetch attempt can end with.  "notfound", "permission" and
\* "transient" are error results of the query; "timeout" is the rejected race.
FetchKinds == {"data", "notfound", "permission", "transient", "timeout"}

OutcomeOf(kind) ==
  IF kind \in {"data", "timeout"} THEN kind ELSE "error"

\* What the insert can end with.
InsertKinds == {"ok", "unique", "error"}

\* The fallback profile of loadProfile's catch block.
TempProfile(uid) ==
  [id |-> "temp", user_id |-> uid, role |-> "staff", full_name |-> "User", phone |-> ""]

\* What loadProfile returns, by what it cached: true after the try block's
\* setProfile(userProfile), whatever fetchProfile / createProfile gave (a row
\* or null); false after the catch block's setProfile of the fallback profile.
LoadProfileResult(cached) ==
  cached = NoProfile \/ cached.id # "temp"

NewMeter ==
  [kinds |-> <<>>, waited |-> 0, elapsed |-> 0, inserts |-> 0, insert |-> "none",
   done |-> FALSE, result |-> NoProfile]

\* The meter of load g after a step that took dt seconds, dw of them backoff.
Metered(g, kindsNow, dt, dw, ins) ==
  [meter EXCEPT ![g] =
     [kinds   |-> kindsNow,
      waited  |-> @.waited + dw,
      elapsed |-> @.elapsed + dt,
      inserts |-> IF ins # "none" THEN @.inserts + 1 ELSE @.inserts,
      insert  |-> IF ins # "none" THEN ins
                  ELSE IF \E m \in loads' : m.gen = g /\ m.pc = "create"
                       THEN "sent" ELSE @.insert,
      done    |-> \A m \in loads' : m.gen # g,
      result  |-> IF \A m \in loads' : m.gen # g THEN profile' ELSE @.result]]

LoaderFetch ==
  \E l \in loads, kind \in FetchKinds, d \in AnswerTimes :
    /\ kind = "notfound" => store[l.uid] = NoRow
    /\ FetchStep(l, OutcomeOf(kind))
    /\ meter' = Metered(l.gen, Append(meter[l.gen].kinds, kind),
                        IF kind = "timeout" THEN FetchTimeout ELSE d, 0, "none")
    /\ UNCHANGED <<now, mounted, calls>>

LoaderBackoff ==
  \E l \in loads :
    /\ BackoffStep(l)
    /\ meter' = Metered(l.gen, meter[l.gen].kinds,
                        BackoffDelay(l.attempt), BackoffDelay(l.attempt), "none")
    /\ UNCHANGED <<now, mounted, calls>>

LoaderCreate ==
  \E l \in loads, res \in InsertKinds :
    /\ res = "unique" => store[l.uid] # NoRow
    /\ CreateStep(l, res = "ok")
    /\ meter' = Metered(l.gen, meter[l.gen].kinds, 0, 0, res)
    /\ UNCHANGED <<now, mounted, calls>>

\* A user is signed in after the first resolution, and one or two loads for
\* that user have just been started by provider events.
LoaderInit ==
  /\ variant \in {"gated", "single"}
  /\ \E u \in Users, n \in {1, 2} :
       /\ provSession = [uid |-> u, tok |-> "t0"]
       /\ session = provSession
       /\ user = u
       /\ loads = {[gen |-> g, uid |-> u, owner |-> "event", pc |-> "fetch",
                    attempt |-> 0] : g \in 1..n}
       /\ nextGen = n + 1
       /\ meter = [g \in 1..n |-> NewMeter]
  /\ mounted = TRUE
  /\ calls = NoCalls
  /\ now = 0
  /\ store = [u \in Users |-> IF u = "u1" THEN AdminRow ELSE NoRow]
  /\ profile = NoProfile
  /\ loading = FALSE
  /\ initPc = "done"
  /\ initialEvent = FALSE
  /\ fallbackPending = FALSE
  /\ updates = {}
  /\ nextUpd = 1

LoaderNext ==
  \/ LoaderFetch
  \/ LoaderBackoff
  \/ LoaderCreate

LoaderSpec == LoaderInit /\ [][LoaderNext]_vars

\* The fetch attempts are cut off by their timer and the backoff timers
\* elapse; nothing cuts off the insert of createProfile.
LoaderFairSpec ==
  /\ LoaderSpec
  /\ WF_vars(LoaderFetch)
  /\ WF_vars(LoaderBackoff)

\* Layout testing the user before loading.
LayoutViewUserFirst ==
  IF user = "none" THEN "redirect"
  ELSE IF loading THEN "loading"
  ELSE IF profile = NoProfile THEN "loading-profile"
  ELSE "content"

\* What the Layout component renders.
LayoutView ==
  IF loading THEN "loading"
  ELSE IF user = "none" THEN "redirect"
  ELSE IF profile = NoProfile THEN "loading-profile"
  ELSE "content"

\* ------------------------------------------------- role checks of the UI
Features == {"Dashboard", "Inventory", "Barcode Scanner", "Locations", "Reports", "Users"}

\* menuItems with staff added to the roles of Reports.
MenuRolesStaffSeesReports(f) ==
  IF f \in {"Dashboard", "Inventory", "Barcode Scanner", "Reports"}
  THEN {"admin", "staff"}
  ELSE {"admin"}

\* menuItems[].roles of the sidebar.
MenuRoles(f) ==
  IF f \in {"Dashboard", "Inventory", "Barcode Scanner"}
  THEN {"admin", "staff"}
  ELSE {"admin"}

\* filteredItems: profile?.role && item.roles.includes(profile.role).
FilteredItems(p) ==
  {f \in Features : p.role # "none" /\ p.role \in MenuRoles(f)}

\* LocationsPage: if (profile?.role !== 'admin') -> Access Denied.
LocationsPageAdmits(p) == p.role = "admin"

\* UsersPage: if (profile?.role !== 'admin') -> Access Denied.
UsersPageAdmits(p) == p.role = "admin"

\* ReportsPage: if (profile && role !== 'admin' && role !== 'kepala') -> Access Denied.
ReportsPageAdmits(p) ==
  ~(p # NoProfile /\ p.role # "admin" /\ p.role # "kepala")

\* handleDeleteItem: if (!profile || profile.role !== 'admin') -> refused.
CanDeleteItem(p) == ~(p = NoProfile \/ p.role # "admin")

\* profile?.role === 'admin', the check that shows the privileged controls.
IsAdmin(p) == p.role = "admin"

\* The roles a profile can carry.
Roles == {"admin", "staff", "kepala"}

\* menuItems[].roles of the second sidebar.
MenuRolesIndex(f) ==
  IF f \in {"Dashboard", "Inventory", "Barcode Scanner"} THEN {"admin", "staff"}
  ELSE IF f = "Reports" THEN {"admin", "kepala"}
  ELSE {"admin"}

\* The features whose page makes a role check of its own.
GatedFeatures == {"Locations", "Reports", "Users"}

PageAdmits(f, p) ==
  IF f = "Locations" THEN LocationsPageAdmits(p)
  ELSE IF f = "Reports" THEN ReportsPageAdmits(p)
  ELSE UsersPageAdmits(p)

\* ------------------------------------------------------------- claims

\* Load l is in flight before the step and has ended after it.
Completed(l) == l \in loads /\ \A m \in loads' : m.gen # l.gen

\* Some load in flight ends in this step.
SomeLoadCompletes == \E l \in loads : Completed(l)

\* C1: in every reachable state, an absent session implies an absent cached
\* profile.
C1_SessionAbsentProfileAbsent ==
  session = NoSession => profile = NoProfile

\* C2: a sign-out while a load is in flight clears the cached profile in that
\* same step, and the completion of a load that arrives while the session is
\* absent leaves the cached profile absent.
C2_SignOutDiscardsLateLoad ==
  [][ /\ (session # NoSession /\ session' = NoSession) => profile' = NoProfile
      /\ (session = NoSession /\ profile = NoProfile /\ SomeLoadCompletes)
           => profile' = NoProfile ]_vars

\* C3: whenever a user is signed in and a profile is cached, the cached role
\* is the role the store holds for the current user id, or the lowest
\* privilege role when the store holds no row for that user.
C3_CachedRoleIsStoreRole ==
  (user # "none" /\ profile # NoProfile) =>
     profile.role = (IF store[user] # NoRow THEN store[user].role ELSE "staff")

\* C4: a cached profile always belongs to the current identity.
C4_ProfileBelongsToIdentity ==
  profile # NoProfile => (user # "none" /\ profile.user_id = user)

\* C5: the result of a load for the current identity that completes after a
\* newer load was started is discarded: it leaves the cached profile as it was.
C5_StaleResultDiscarded ==
  [][ \A l \in loads :
        (Completed(l) /\ l.uid = user /\ l.gen < nextGen - 1)
          => profile' = profile ]_vars

\* C6: an identity switch clears the cached profile in the same step and
\* starts a load for the new user id, and a later result of a load for another
\* user than the current one leaves the cached profile as it was.
C6_IdentitySwitch ==
  [][ /\ (user # "none" /\ user' # "none" /\ user' # user)
           => /\ profile' = NoProfile
              /\ \E l \in loads' \ loads : l.uid = user'
      /\ \A l \in loads :
           (Completed(l) /\ user # "none" /\ l.uid # user) => profile' = profile ]_vars

\* C7: loading is never left true forever: it is false again and again.
C7_LoadingEventuallyFalse ==
  []<>(~loading)

\* C8: while the load started for the initial session is in flight and no load
\* has yet reached a terminal result, loading is true.
C8_LoadingUntilFirstResolution ==
  ( /\ user # "none"
    /\ Cardinality(loads) = nextGen - 1
    /\ \E l \in loads : l.owner = "init" /\ l.uid = user )
  => loading

\* C9: a refreshProfile() call, and an identity switch, each make loading
\* true in the step that starts their load.
C9_LoadingDuringRefresh ==
  [][ ( \/ \E l \in loads' \ loads : l.owner = "refresh"
        \/ (user # "none" /\ user' # "none" /\ user' # user) )
        => loading' ]_vars

\* C10: a notification that replaces the session by another session of the
\* same user id leaves the cached profile unchanged and starts no load.
C10_SameUserEventNoReload ==
  [][ (session # NoSession /\ session' # session /\ session'.uid = session.uid)
        => (profile' = profile /\ loads' = loads) ]_vars

\* C11: at startup, the second of the two notifications (snapshot, initial
\* event) that carries the session already established starts no load and
\* changes nothing of the exposed state.
C11_StartupNotificationIdempotent ==
  [][ ( /\ \/ (initialEvent /\ ~initialEvent' /\ initPc = "done")
           \/ (initPc = "snapshot" /\ initPc' = "done" /\ ~initialEvent)
        /\ session # NoSession
        /\ session' = session
        /\ nextGen = 2 )
      => (nextGen' = nextGen /\ loads' = loads /\ profile' = profile) ]_vars

\* The metered loads, and the failures a load met before its last attempt.
Metered_ == DOMAIN meter
Failures(g) == Len(meter[g].kinds) - 1
FetchedOk(g) ==
  /\ meter[g].done
  /\ meter[g].kinds # <<>>
  /\ meter[g].kinds[Len(meter[g].kinds)] = "data"
AllKinds(g, K) == \A i \in 1..Len(meter[g].kinds) : meter[g].kinds[i] \in K
Exhausted(g) == Len(meter[g].kinds) = Retries + 1 /\ AllKinds(g, FetchKinds \ {"data"})

\* C12: a load that ends with a fetched profile after k failed attempts
\* (transient error results or timeouts) made no insert and waited
\* base * (2^0 + ... + 2^(k-1)) in total, whatever the kind of the failures.
C12_RetryThenSuccess ==
  \A g \in Metered_ :
    (FetchedOk(g) /\ AllKinds(g, {"transient", "timeout", "data"})) =>
      /\ meter[g].inserts = 0
      /\ Failures(g) <= Retries
      /\ meter[g].waited = ((2 ^ Failures(g)) - 1) * BackoffBase

\* The fetching of a load: at most R+1 attempts, at most T*(R+1) + 1 + 2
\* seconds of fetching and backing off; after two timeouts and a success on
\* the third attempt the load ends with the stored profile, between 2T + 3
\* and 3T + 3 seconds after it started.
BoundedFetching ==
  \A g \in Metered_ :
    /\ Len(meter[g].kinds) <= Retries + 1
    /\ meter[g].elapsed <= FetchTimeout * (Retries + 1) + 3
    /\ (meter[g].done /\ meter[g].kinds = <<"timeout", "timeout", "data">>) =>
         /\ meter[g].result = RowProfile(user, store[user])
         /\ meter[g].elapsed >= 2 * FetchTimeout + 3
         /\ meter[g].elapsed <= 3 * FetchTimeout + 3

\* C13: every load terminates, within the bounds on its attempts and on the
\* time it spends fetching and backing off.
C13_BoundedLoad ==
  []BoundedFetching /\ <>(\A g \in Metered_ : meter[g].done)

\* C14: a load whose fetches were all answered NotFound made exactly one
\* insert, and when that insert went through, the profile it ended with (the
\* one cached) is the inserted row.
C14_NotFoundProvisionsOnce ==
  \A g \in Metered_ :
    (meter[g].done /\ Exhausted(g) /\ AllKinds(g, {"notfound"})) =>
      /\ meter[g].inserts = 1
      /\ meter[g].insert = "ok" =>
           /\ meter[g].result = RowProfile(user, DefaultRow)
           /\ store[user] = DefaultRow

C14_Witness ==
  \E g \in Metered_ :
    /\ meter[g].done /\ Exhausted(g) /\ AllKinds(g, {"notfound"})
    /\ meter[g].insert = "ok"
    /\ profile = RowProfile(user, DefaultRow)

\* C15: a load whose insert met a uniqueness violation ends with the stored
\* profile of that user.
C15_UniqueViolationRefetches ==
  \A g \in Metered_ :
    (meter[g].done /\ meter[g].insert = "unique") =>
      meter[g].result = RowProfile(user, store[user])

\* C16: two concurrent loads for one user that both found no profile and both
\* attempted the insert against the unique store end with the same stored
\* profile, which is cached.
C16_ConcurrentProvisioningConverges ==
  ( /\ Metered_ = {1, 2}
    /\ \A g \in Metered_ :
         /\ meter[g].done
         /\ Exhausted(g) /\ AllKinds(g, {"notfound"})
         /\ meter[g].insert \in {"ok", "unique"} )
  => /\ meter[1].result = meter[2].result
     /\ meter[1].result = RowProfile(user, store[user])
     /\ profile = meter[1].result

\* C17: a load whose fetches were exhausted by an error other than NotFound,
\* or whose insert failed for another reason than uniqueness, ends with the
\* 'temp' fallback profile.
C17_FallbackProfile ==
  \A g \in Metered_ :
    ( /\ meter[g].done
      /\ \/ (Exhausted(g) /\ AllKinds(g, FetchKinds \ {"data", "notfound"}))
         \/ meter[g].insert = "error" )
    => meter[g].result = TempProfile(user)

\* C18: once every load of the authenticated user has reached its terminal
\* state, the layout guard renders the protected content.
C18_LayoutLeavesLoading ==
  (\A g \in Metered_ : meter[g].done) => LayoutView = "content"

\* C19: a load whose first fetch met a permission error made that one attempt
\* only, made no insert and ended with the fallback profile.
C19_PermissionNotRetried ==
  \A g \in Metered_ :
    (meter[g].kinds # <<>> /\ meter[g].kinds[1] = "permission") =>
      /\ Len(meter[g].kinds) = 1
      /\ meter[g].insert = "none"
      /\ meter[g].done
      /\ meter[g].result = TempProfile(user)

\* C20: a load none of whose fetch attempts was answered NotFound (all ended
\* in timeouts or other errors) attempts no insert.
C20_InsertOnlyOnNotFound ==
  \A g \in Metered_ :
    AllKinds(g, FetchKinds \ {"notfound"}) => meter[g].insert = "none"

\* C21: a row that appears in the profiles table was inserted by a load of
\* that user id and is the default row (placeholder name, empty phone, role
\* staff); a profile cached at the end of createProfile is that row for the
\* load's user id; the fallback profile has the same fields.  None of them
\* has the admin role.
C21_CreatedProfilesAreDefault ==
  [][ /\ \A u \in Users :
           (store[u] = NoRow /\ store'[u] # NoRow) =>
             /\ store'[u] = [role |-> "staff", full_name |-> "User", phone |-> ""]
             /\ \E l \in loads : l.uid = u /\ l.pc = "create"
      /\ \A l \in loads :
           (Completed(l) /\ l.pc = "create" /\ profile' # NoProfile) =>
             profile' = [id |-> "row", user_id |-> l.uid, role |-> "staff",
                         full_name |-> "User", phone |-> ""]
      /\ \A u \in Users :
           /\ TempProfile(u).user_id = u
           /\ TempProfile(u).role = "staff"
           /\ TempProfile(u).full_name = "User"
           /\ TempProfile(u).phone = "" ]_vars

C21_Witness ==
  /\ store["u2"] = [role |-> "staff", full_name |-> "User", phone |-> ""]
  /\ profile.user_id = "u2"
  /\ profile.role = "staff"

\* C22: with no cached profile no menu item is shown and the Locations,
\* Users and Reports pages and the item delete are refused.
C22_FailClosed ==
  profile = NoProfile =>
    /\ FilteredItems(profile) = {}
    /\ ~LocationsPageAdmits(profile)
    /\ ~UsersPageAdmits(profile)
    /\ ~ReportsPageAdmits(profile)
    /\ ~CanDeleteItem(profile)
    /\ ~IsAdmin(profile)

\* C23: with the stored profile of a staff user cached, the privileged check
\* is false, the menu shows exactly Dashboard, Inventory and Barcode Scanner
\* (the features whose roles contain staff), and Locations, Reports, Users
\* and the item delete are refused.
C23_StaffGrants ==
  (user # "none" /\ profile = RowProfile(user, store[user]) /\ profile.role = "staff") =>
    /\ ~IsAdmin(profile)
    /\ FilteredItems(profile) = {"Dashboard", "Inventory", "Barcode Scanner"}
    /\ FilteredItems(profile) = {f \in Features : "staff" \in MenuRoles(f)}
    /\ ~LocationsPageAdmits(profile)
    /\ ~ReportsPageAdmits(profile)
    /\ ~UsersPageAdmits(profile)
    /\ ~CanDeleteItem(profile)

C23_Witness ==
  /\ user # "none"
  /\ session # NoSession
  /\ store[user].role = "staff"
  /\ profile = RowProfile(user, store[user])
  /\ loads = {}

C27_UpdateIsOptimistic ==
  [][ \A r \in updates' \ updates :
        profile # NoProfile => profile' = [profile EXCEPT !.full_name = r.full_name] ]_vars

\* C28: a step that starts a refresh load starts exactly one load, for the
\* user id of the current identity, and changes nothing else; without an
\* identity no refresh load starts; the result of a refresh load that ends
\* is the cached profile.
C28_RefreshStartsOneLoad ==
  [][ /\ \A l \in loads' :
           (l.owner = "refresh" /\ \A m \in loads : m.gen # l.gen) =>
             /\ user # "none" /\ l.uid = user
             /\ loads' = loads \cup {l}
             /\ nextGen' = nextGen + 1
             /\ UNCHANGED <<user, session, profile, loading, store, updates>>
      /\ \A l \in loads :
           (l.owner = "refresh" /\ Completed(l)) =>
             profile' \in {NoProfile, RowProfile(l.uid, store'[l.uid])} ]_vars

C28_Witness ==
  /\ user # "none"
  /\ \E l \in loads : l.owner = "refresh" /\ l.uid = user

\* C30: once the provider is torn down, identity, session, profile and
\* loading do not change any more.
C30_NoChangeAfterTeardown ==
  [][ ~mounted => UNCHANGED <<user, session, profile, loading>> ]_vars

\* C25: signIn makes one request to the provider and does not repeat it; the
\* call and a refusal change nothing of identity, session, profile, loading
\* or the loads; when the provider accepts, the session that appears is the
\* one the provider notified.
C25_SignInOnlyReports ==
  [][ /\ (calls.signIn # "sent" /\ calls'.signIn = "sent") =>
           /\ calls'.signInSent = 1
           /\ UNCHANGED <<user, session, profile, loading, loads, provSession>>
      /\ calls.signIn = "sent" => calls'.signInSent = 1
      /\ (calls.signIn = "sent" /\ calls'.signIn = "error") =>
           UNCHANGED <<user, session, profile, loading, loads, provSession>>
      /\ (calls.signIn = "sent" /\ calls'.signIn = "ok") =>
           /\ provSession' # NoSession
           /\ session' = provSession' ]_vars

C25_Witness ==
  /\ calls.signIn = "error"
  /\ calls.signInSent = 1
  /\ user = "u1"
  /\ profile # NoProfile

\* C26: the step that calls signOut clears identity, session and profile,
\* and every signOut call returns, whatever the provider does with the
\* sign-out request.
C26_SignOutBestEffort ==
  /\ [][ (calls.signOut # "sent" /\ calls'.signOut = "sent") =>
           (user' = "none" /\ session' = NoSession /\ profile' = NoProfile) ]_vars
  /\ [](calls.signOut = "sent" => <>(calls.signOut = "ok"))

\* C29: the gated variant leaves everything as it is when the initial event
\* is delivered, and keeps loading true as long as the session snapshot is
\* outstanding; the single-handler variant, given the same event and store
\* answers, reaches a state the gated one cannot be in (C29_Witness).
C29_GatedSkipsInitialEvent ==
  /\ [][ (variant = "gated" /\ initialEvent /\ ~initialEvent') =>
           UNCHANGED <<user, session, profile, loading, loads, nextGen>> ]_vars
  /\ [](variant = "gated" /\ initPc = "snapshot" => loading)

\* Single-handler variant: the initial event was delivered with u1's
\* session and its load (the only one started) was answered; the snapshot is
\* outstanding, the timer has not fired; loading is false.
C29_Witness ==
  /\ variant = "single"
  /\ initPc = "snapshot"
  /\ ~initialEvent
  /\ fallbackPending
  /\ nextGen = 2
  /\ loads = {}
  /\ updates = {}
  /\ user = "u1"
  /\ profile = RowProfile("u1", store["u1"])
  /\ ~loading

\* C32: in the gated variant an INITIAL_SESSION event delivered when loading
\* is false is processed: session and identity become those of the event,
\* and a load starts for its user, or the profile is cleared.
C32_InitialEventAfterInit ==
  [][ (variant = "gated" /\ initialEvent /\ ~initialEvent' /\ ~loading) =>
        /\ session' = provSession
        /\ user' = provSession.uid
        /\ IF provSession # NoSession
           THEN \E l \in loads' : l.gen = nextGen /\ l.uid = provSession.uid
           ELSE profile' = NoProfile ]_vars

\* C34: the layout renders the content only with loading false, an identity
\* and a profile; it redirects exactly when loading is false and there is no
\* identity; while loading is true it shows the loading screen whatever the
\* identity, and without a profile the profile spinner.
C34_LayoutGuard ==
  /\ LayoutView = "content" => (~loading /\ user # "none" /\ profile # NoProfile)
  /\ LayoutView = "redirect" <=> (~loading /\ user = "none")
  /\ loading => LayoutView = "loading"
  /\ (~loading /\ user # "none" /\ profile = NoProfile) => LayoutView = "loading-profile"

C34_Witness ==
  /\ LayoutView = "content"
  /\ user # "none"
  /\ profile.user_id = user

\* C35: for every stored profile, were its role any of admin, staff, kepala,
\* and every feature whose page checks the role, each sidebar shows the entry
\* exactly when the page admits the profile.
C35_MenuAgreesWithPages ==
  \A r \in Roles, f \in GatedFeatures, u \in Users :
    store[u] # NoRow =>
      LET p == [RowProfile(u, store[u]) EXCEPT !.role = r]
      IN /\ (f \in FilteredItems(p)) <=> PageAdmits(f, p)
         /\ (r \in MenuRolesIndex(f)) <=> PageAdmits(f, p)

\* C38: a finished load returned true only if it cached a real profile of the
\* requested user, and false exactly when it cached the 'temp' profile; it
\* never returned true with the cached profile left absent.
C38_LoadProfileBoolean ==
  \A g \in Metered_ :
    meter[g].done =>
      /\ LoadProfileResult(meter[g].result) =>
            /\ meter[g].result # NoProfile
            /\ meter[g].result.id = "row"
            /\ meter[g].result.user_id = user
      /\ ~LoadProfileResult(meter[g].result) <=>
            (meter[g].result # NoProfile /\ meter[g].result.id = "temp")

\* The updateProfile call r returns to its caller in this step.
Returned(r) == r \in updates /\ \A q \in updates' : q.id # r.id

\* C36: the return of a successful updateProfile call leaves the cached
\* profile as it was unless that profile is the one of the user who made the
\* call: after a sign-out or a switch to another user nothing is merged.
C36_UpdateAppliedToIssuerOnly ==
  [][ \A r \in updates :
        (Returned(r) /\ r.pc = "ok" /\ (profile = NoProfile \/ profile.user_id # r.uid))
          => profile' = profile ]_vars

\* C37: a call made with no signed-in user never reaches the store and its
\* return changes neither the profile nor the store; an error answer of the
\* store leaves the store as it was and the return of that call leaves the
\* cached profile as it was; the return of a successful call changes the
\* supplied field only, and an absent cached profile stays absent.
C37_UpdateProfileErrorPaths ==
  [][ \A r \in updates :
        /\ r.uid = "none" => r.pc = "rejected"
        /\ (r.pc = "sent" /\ [r EXCEPT !.pc = "error"] \in updates') => store' = store
        /\ Returned(r) =>
             /\ r.pc = "rejected" => (profile' = profile /\ store' = store)
             /\ r.pc = "error" => profile' = profile
             /\ r.pc = "ok" =>
                  profile' = IF profile = NoProfile THEN NoProfile
                             ELSE [profile EXCEPT !.full_name = r.full_name] ]_vars

\* An update of the first user failed, a later one succeeded and was merged:
\* the name is the supplied one, the other fields are those of the row.
C37_Witness ==
  /\ updates = {}
  /\ nextUpd = 3
  /\ user = "u1"
  /\ store["u1"].full_name = "Edited"
  /\ profile = [RowProfile("u1", AdminRow) EXCEPT !.full_name = "Edited"]

\* C31: a step that removes a stored row touches nothing of the session
\* state (it is the administrator's, never the session subsystem's); and a
\* load that ends while the store holds no row for its user ends on the
\* insert of createProfile, which, once accepted, leaves the default row of
\* role staff in the store and that row cached as the profile of that user.
C31_ToleratesDeletion ==
  [][ /\ (\E u \in Users : store[u] # NoRow /\ store'[u] = NoRow)
           => UNCHANGED <<user, session, profile, loading, loads, nextGen, updates>>
      /\ \A l \in loads :
           (Completed(l) /\ store[l.uid] = NoRow) =>
             /\ l.pc = "create"
             /\ IF store'[l.uid] # NoRow
                THEN /\ store'[l.uid] = DefaultRow
                     /\ profile' = RowProfile(l.uid, DefaultRow)
                     /\ profile'.role = "staff"
                     /\ profile'.user_id = l.uid
                ELSE profile' = NoProfile ]_vars

\* The administrator's row was deleted and a later load provisioned the
\* default row for the same user.
C31_Witness ==
  /\ user = "u1"
  /\ loads = {}
  /\ store["u1"] = DefaultRow
  /\ profile = RowProfile("u1", DefaultRow)

\* C33: in the single-handler variant, while the provider is mounted loading
\* is false once more than 15 units of time have passed since the start,
\* whatever is still outstanding; once the provider is torn down no fallback
\* timer is pending, so it never fires.
C33_FallbackBoundsLoading ==
  variant = "single" =>
    /\ (mounted /\ now > FallbackDelay) => ~loading
    /\ ~mounted => ~fallbackPending

\* The deadline has passed with the session snapshot and a store call still
\* outstanding, and loading is false.
C33_Witness ==
  /\ variant = "single"
  /\ mounted
  /\ now > FallbackDelay
  /\ initPc = "snapshot"
  /\ \E l \in loads : l.pc = "fetch" /\ l.attempt = 0
  /\ ~loading

====
